---- MODULE Spec2Model ----
(***************************************************************************)
(* Lyra abstract domains: TypeLattice, AssumptionLattice,                  *)
(* InputAssumptionLattice (quality/assumption_lattice.py), Store           *)
(* (store.py) and KeyWrapper (container/fulara/key_wrapper.py).            *)
(*                                                                         *)
(* Python objects are modelled by value: an object is the record of its    *)
(* attributes.  A method that mutates its receiver is an operator that     *)
(* yields an outcome [exc, val]: exc is "" when the call returns and the   *)
(* name of the exception when it raises; val is the receiver afterwards.   *)
(* A method that returns a bool yields [exc, val] with val the bool.       *)
(* The last part models InputAssumptionLattice.join on objects with        *)
(* identity, for what a call does to objects it shares with its argument.  *)
(***************************************************************************)
EXTENDS Integers, Sequences, FiniteSets

VARIABLES pc, a, b, pre, out, changes, steps, store, lattices, arguments, variable, heap, ret

vars == <<pc, a, b, pre, out, changes, steps, store, lattices, arguments, variable, heap, ret>>

(***************************************************************************)
(* Bounds of the model.                                                    *)
(***************************************************************************)
\* resolved iteration counts of a top-level element range over 1..MaxIter
MaxIter == 2
\* len(a.assmps) + len(b.assmps) of the two operands of one call
MaxTotalLen == 4
\* len(a.assmps) + len(b.assmps) of the operands of meet and widening
MaxOpLen == 2
\* finite bounds of the intervals of the operands range over 0..MaxBound
MaxBound == 1
\* number of widening steps of one TypeLattice chain
MaxSteps == 6
\* program variables a Store may track are 1..NumVars
NumVars == 2

(***************************************************************************)
(* Outcomes of a call.                                                     *)
(***************************************************************************)
Ok(v) == [exc |-> "", val |-> v]

Raise(e, v) == [exc |-> e, val |-> v]

Max(x, y) == IF x >= y THEN x ELSE y

Min(x, y) == IF x <= y THEN x ELSE y

(***************************************************************************)
(* Lattice (base class, lyra/abstract_domains/lattice.py): the public      *)
(* operations short-circuit the trivial cases and delegate to the hook.    *)
(* sb, st: self.is_bottom(), self.is_top(); ob, ot: the same of other.     *)
(* The result names what the public operation does.                        *)
(***************************************************************************)
Lattice_less_equal(sb, st, ob, ot) ==
    IF sb \/ ot THEN "true"
    ELSE IF ob \/ st THEN "false"
    ELSE "hook"

Lattice_join(sb, st, ob, ot) ==
    IF sb \/ ot THEN "replace"
    ELSE IF ob \/ st THEN "self"
    ELSE "hook"

Lattice_meet(sb, st, ob, ot) ==
    IF st \/ ob THEN "replace"
    ELSE IF ot \/ sb THEN "self"
    ELSE "hook"

Lattice_widening(sb, st, ob, ot) ==
    IF sb \/ ot THEN "replace"
    ELSE "hook"

\* copy.deepcopy on an object modelled by value
deepcopy(x) == x

(***************************************************************************)
(* TypeLattice (BottomMixin): _bottom flag and _element, a Status.         *)
(***************************************************************************)
Status_Bool == 0

Status_Int == 1

Status_Float == 2

Status_Any == 3

Status == {Status_Bool, Status_Int, Status_Float, Status_Any}

\* TypeLattice.__init__
TypeLattice(type_status) == [bottom |-> FALSE, element |-> type_status]

\* BottomMixin.bottom / is_bottom
T_bottom(x) == [x EXCEPT !.bottom = TRUE]

T_is_bottom(x) == x.bottom

\* TypeLattice.top: self.replace(TypeLattice(Status.Any))
T_top(x) == TypeLattice(Status_Any)

\* TypeLattice.is_top: self.element == Status.Any, element being None at bottom
T_is_top(x) == ~T_is_bottom(x) /\ x.element = Status_Any

\* TypeLattice.__repr__
T_repr(x) ==
    IF T_is_bottom(x) THEN [tag |-> "bottom", n |-> 0, body |-> <<>>]
    ELSE [tag |-> "Status", n |-> x.element, body |-> <<>>]

\* TypeLattice._less_equal: comparing a Status with None raises TypeError
T__less_equal(x, y) ==
    IF T_is_bottom(x) \/ T_is_bottom(y) THEN Raise("TypeError", FALSE)
    ELSE Ok(x.element <= y.element)

T__join_min(x, y) ==
    IF T_is_bottom(x) \/ T_is_bottom(y) THEN Raise("TypeError", x)
    ELSE Ok(TypeLattice(Min(x.element, y.element)))

\* TypeLattice._join: max of a Status and None raises TypeError
T__join(x, y) ==
    IF T_is_bottom(x) \/ T_is_bottom(y) THEN Raise("TypeError", x)
    ELSE Ok(TypeLattice(Max(x.element, y.element)))

\* TypeLattice._meet
T__meet(x, y) ==
    IF T_is_bottom(x) \/ T_is_bottom(y) THEN Raise("TypeError", x)
    ELSE Ok(TypeLattice(Min(x.element, y.element)))

\* TypeLattice._widening
T__widening(x, y) == T__join(x, y)

\* the public operations of Lattice on a TypeLattice
T_less_equal(x, y) ==
    LET c == Lattice_less_equal(T_is_bottom(x), T_is_top(x), T_is_bottom(y), T_is_top(y))
    IN  IF c = "true" THEN Ok(TRUE)
        ELSE IF c = "false" THEN Ok(FALSE)
        ELSE T__less_equal(x, y)

T_join(x, y) ==
    LET c == Lattice_join(T_is_bottom(x), T_is_top(x), T_is_bottom(y), T_is_top(y))
    IN  IF c = "replace" THEN Ok(y)
        ELSE IF c = "self" THEN Ok(x)
        ELSE T__join(x, y)

T_meet(x, y) ==
    LET c == Lattice_meet(T_is_bottom(x), T_is_top(x), T_is_bottom(y), T_is_top(y))
    IN  IF c = "replace" THEN Ok(y)
        ELSE IF c = "self" THEN Ok(x)
        ELSE T__meet(x, y)

T_widening(x, y) ==
    LET c == Lattice_widening(T_is_bottom(x), T_is_top(x), T_is_bottom(y), T_is_top(y))
    IN  IF c = "replace" THEN Ok(y)
        ELSE T__widening(x, y)

(***************************************************************************)
(* IntervalLattice (lyra/abstract_domains/numerical/interval_domain.py):   *)
(* bottom, or [lower, upper] with lower <= upper; -Inf and Inf are the     *)
(* infinite bounds.                                                        *)
(***************************************************************************)
Inf == 9

IntervalLattice(lower, upper) == [bottom |-> FALSE, lower |-> lower, upper |-> upper]

R_bottom(x) == [x EXCEPT !.bottom = TRUE]

R_is_bottom(x) == x.bottom

R_top(x) == IntervalLattice(-Inf, Inf)

R_is_top(x) == ~R_is_bottom(x) /\ x.lower = -Inf /\ x.upper = Inf

R_repr(x) ==
    IF R_is_bottom(x) THEN [tag |-> "bottom", n |-> 0, body |-> <<>>]
    ELSE [tag |-> "interval", n |-> 0,
          body |-> << [tag |-> "bound", n |-> x.lower, body |-> <<>>],
                      [tag |-> "bound", n |-> x.upper, body |-> <<>>] >>]

R__less_equal(x, y) == Ok(y.lower <= x.lower /\ x.upper <= y.upper)

R__join(x, y) == Ok(IntervalLattice(Min(x.lower, y.lower), Max(x.upper, y.upper)))

R_less_equal(x, y) ==
    LET c == Lattice_less_equal(R_is_bottom(x), R_is_top(x), R_is_bottom(y), R_is_top(y))
    IN  IF c = "true" THEN Ok(TRUE)
        ELSE IF c = "false" THEN Ok(FALSE)
        ELSE R__less_equal(x, y)

R_join(x, y) ==
    LET c == Lattice_join(R_is_bottom(x), R_is_top(x), R_is_bottom(y), R_is_top(y))
    IN  IF c = "replace" THEN Ok(y)
        ELSE IF c = "self" THEN Ok(x)
        ELSE R__join(x, y)

(***************************************************************************)
(* AssumptionLattice: the dictionary {type_assmp, range_assmp}.            *)
(***************************************************************************)
\* AssumptionLattice.__init__
AssumptionLattice(type_element, range_element) ==
    [cls |-> "AssumptionLattice", type_assmp |-> type_element, range_assmp |-> range_element]

\* AssumptionLattice.type_assumption / range_assumption
type_assumption(x) == x.type_assmp

range_assumption(x) == x.range_assmp

\* AssumptionLattice.bottom / top
A_bottom(x) == AssumptionLattice(T_bottom(x.type_assmp), R_bottom(x.range_assmp))

A_top(x) == AssumptionLattice(T_top(x.type_assmp), R_top(x.range_assmp))

\* AssumptionLattice.is_bottom: any assumption is bottom
A_is_bottom(x) == T_is_bottom(type_assumption(x)) \/ R_is_bottom(range_assumption(x))

\* AssumptionLattice.is_top: all assumptions are top
A_is_top(x) == T_is_top(type_assumption(x)) /\ R_is_top(range_assumption(x))

\* AssumptionLattice.__repr__
A_repr(x) ==
    [tag |-> "tuple", n |-> 0,
     body |-> << T_repr(type_assumption(x)), R_repr(range_assumption(x)) >>]

\* AssumptionLattice._less_equal
A__less_equal(x, y) ==
    LET t == T_less_equal(type_assumption(x), type_assumption(y))
    IN  IF t.exc # "" THEN t
        ELSE IF ~t.val THEN Ok(FALSE)
        ELSE R_less_equal(range_assumption(x), range_assumption(y))

A__join_type_only(x, y) ==
    LET t == T_join(type_assumption(x), type_assumption(y))
    IN  IF t.exc # "" THEN Raise(t.exc, x)
        ELSE Ok(AssumptionLattice(t.val, range_assumption(x)))

\* AssumptionLattice._join
A__join(x, y) ==
    LET t == T_join(type_assumption(x), type_assumption(y))
    IN  IF t.exc # "" THEN Raise(t.exc, x)
        ELSE LET r == R_join(range_assumption(x), range_assumption(y))
             IN  IF r.exc # "" THEN Raise(r.exc, AssumptionLattice(t.val, range_assumption(x)))
                 ELSE Ok(AssumptionLattice(t.val, r.val))

A_less_equal(x, y) ==
    LET c == Lattice_less_equal(A_is_bottom(x), A_is_top(x), A_is_bottom(y), A_is_top(y))
    IN  IF c = "true" THEN Ok(TRUE)
        ELSE IF c = "false" THEN Ok(FALSE)
        ELSE A__less_equal(x, y)

A_join(x, y) ==
    LET c == Lattice_join(A_is_bottom(x), A_is_top(x), A_is_bottom(y), A_is_top(y))
    IN  IF c = "replace" THEN Ok(y)
        ELSE IF c = "self" THEN Ok(x)
        ELSE A__join(x, y)

(***************************************************************************)
(* Lattice.replace: self.__dict__.update(other.__dict__).  The attributes  *)
(* of other overwrite those of self and are added when self lacks them;    *)
(* the class of self (cls) is no attribute and stays.                      *)
(***************************************************************************)
Lattice_replace(self, other) ==
    [k \in (DOMAIN self) \cup (DOMAIN other) |->
        IF k = "cls" THEN self.cls
        ELSE IF k \in DOMAIN other THEN other[k]
        ELSE self[k]]

(***************************************************************************)
(* InputAssumptionLattice (BoundedLattice): kind, iterations, _assmps,     *)
(* is_loop.  condition stays None throughout and is left out.              *)
(***************************************************************************)
\* the value of iterations that stands for Python's None
None == -1

\* InputAssumptionLattice.__init__
InputAssumptionLattice(iterations, assmps) ==
    [cls |-> "InputAssumptionLattice", kind |-> "DEFAULT", iterations |-> iterations,
     assmps |-> assmps, is_loop |-> FALSE]

\* isinstance(x, InputAssumptionLattice)
isinstance_InputAssumptionLattice(x) == x.cls = "InputAssumptionLattice"

\* BoundedLattice.bottom / top / is_bottom / is_top
I_bottom(x) == [x EXCEPT !.kind = "BOTTOM"]

I_top(x) == [x EXCEPT !.kind = "TOP"]

I_is_bottom(x) == x.kind = "BOTTOM"

I_is_top(x) == x.kind = "TOP"

\* is_bottom() / is_top() of an element of a sequence, by its class
E_is_bottom(x) == IF isinstance_InputAssumptionLattice(x) THEN I_is_bottom(x) ELSE A_is_bottom(x)

E_is_top(x) == IF isinstance_InputAssumptionLattice(x) THEN I_is_top(x) ELSE A_is_top(x)

\* InputAssumptionLattice.add_assumption_front
add_assumption_front(self, assmp) == [self EXCEPT !.assmps = <<assmp>> \o @]

\* InputAssumptionLattice.add_assumptions_with_iter
add_assumptions_with_iter(self, iterations, assmps) ==
    LET input_assmps == [InputAssumptionLattice(iterations, assmps) EXCEPT !.is_loop = TRUE]
    IN  [self EXCEPT !.assmps = <<input_assmps>> \o @]

\* InputAssumptionLattice.__repr__ (and that of its elements)
RECURSIVE E_repr(_)
E_repr(x) ==
    IF ~isinstance_InputAssumptionLattice(x) THEN A_repr(x)
    ELSE IF I_is_bottom(x) THEN [tag |-> "bottom", n |-> 0, body |-> <<>>]
    ELSE IF I_is_top(x) THEN [tag |-> "T", n |-> 0, body |-> <<>>]
    ELSE IF x.iterations = None THEN [tag |-> "NONE", n |-> 0, body |-> <<>>]
    ELSE IF x.iterations = 1
         THEN [tag |-> "list", n |-> 0, body |-> [i \in 1..Len(x.assmps) |-> E_repr(x.assmps[i])]]
    ELSE [tag |-> "x", n |-> x.iterations,
          body |-> [i \in 1..Len(x.assmps) |-> E_repr(x.assmps[i])]]

\* Lattice.__eq__: same class and equal repr
Lattice_eq(x, y) == x.cls = y.cls /\ E_repr(x) = E_repr(y)

\* the element i of the sequence of self set to v
SetAssmp(self, i, v) == [self EXCEPT !.assmps = [@ EXCEPT ![i] = v]]

\* list.pop(1) on the sequence of self (Python index 1 is position 2)
Pop1(self) == [self EXCEPT !.assmps = <<@[1]>> \o SubSeq(@, 3, Len(@))]

RECURSIVE E_less_equal(_, _)
RECURSIVE I__less_equal_from(_, _, _)
\* the loop of InputAssumptionLattice._less_equal, from position i on
I__less_equal_from(self, other, i) ==
    IF i > Len(self.assmps) THEN Ok(TRUE)
    ELSE LET r == E_less_equal(self.assmps[i], other.assmps[i])
         IN  IF r.exc # "" THEN r
             ELSE IF ~r.val THEN Ok(FALSE)
             ELSE I__less_equal_from(self, other, i + 1)

\* InputAssumptionLattice._less_equal
I__less_equal(self, other) ==
    IF Len(self.assmps) # Len(other.assmps) THEN Ok(FALSE)
    ELSE I__less_equal_from(self, other, 1)

\* Lattice.less_equal on an element of a sequence: the hook of the class of
\* self reads attributes that an element of the other class does not have
E_less_equal(x, y) ==
    LET c == Lattice_less_equal(E_is_bottom(x), E_is_top(x), E_is_bottom(y), E_is_top(y))
    IN  IF c = "true" THEN Ok(TRUE)
        ELSE IF c = "false" THEN Ok(FALSE)
        ELSE IF x.cls # y.cls THEN Raise("AttributeError", FALSE)
        ELSE IF isinstance_InputAssumptionLattice(x) THEN I__less_equal(x, y)
        ELSE A__less_equal(x, y)

\* Lattice.less_equal on an InputAssumptionLattice
I_less_equal(self, other) == E_less_equal(self, other)

(***************************************************************************)
(* InputAssumptionLattice._join and the public join that calls it.         *)
(***************************************************************************)
iterations_differ_never(self, other) == FALSE

\* line 338: the two iteration counts differ
iterations_differ(self, other) == self.iterations # other.iterations

\* lines 344, 346: an InputAssumptionLattice element whose iterations is None
is_placeholder(assmp) == isinstance_InputAssumptionLattice(assmp) /\ assmp.iterations = None

same_kind_never(assmp1, assmp2) == FALSE

\* line 348: both elements are of the same kind
same_kind(assmp1, assmp2) ==
    isinstance_InputAssumptionLattice(assmp1) = isinstance_InputAssumptionLattice(assmp2)

\* lines 355-359 (and 366-370): the first element of the shorter sequence is a
\* placeholder and the first two of the longer are InputAssumptionLattices
can_fold(longer, shorter) ==
    /\ isinstance_InputAssumptionLattice(shorter.assmps[1])
    /\ shorter.assmps[1].iterations = None
    /\ isinstance_InputAssumptionLattice(longer.assmps[1])
    /\ isinstance_InputAssumptionLattice(longer.assmps[2])

kind_mismatch_keeps(self) == Ok(self)

\* line 351: the two elements differ in kind, return self.top()
kind_mismatch(self) == Ok(I_top(self))

RECURSIVE I_join(_, _)
RECURSIVE I__join(_, _)
RECURSIVE I__join_from(_, _, _)
\* lines 341-352: the loop over zip(self.assmps, other.assmps), from position i on
I__join_from(self, other, i) ==
    IF i > Len(self.assmps) THEN Ok(self)
    ELSE LET assmp1 == self.assmps[i]
             assmp2 == other.assmps[i]
         IN  IF is_placeholder(assmp1)
             THEN I__join_from(SetAssmp(self, i, Lattice_replace(assmp1, deepcopy(assmp2))),
                               other, i + 1)
             ELSE IF is_placeholder(assmp2)
             THEN I__join_from(self, other, i + 1)
             ELSE IF same_kind(assmp1, assmp2)
             THEN LET r == IF isinstance_InputAssumptionLattice(assmp1)
                           THEN I_join(assmp1, assmp2)
                           ELSE A_join(assmp1, assmp2)
                  IN  IF r.exc # "" THEN Raise(r.exc, SetAssmp(self, i, r.val))
                      ELSE I__join_from(SetAssmp(self, i, r.val), other, i + 1)
             ELSE kind_mismatch(self)

\* lines 360-364 (self the longer side) and 371-376 (a copy of other the longer
\* side): fold the first two elements, pop the second, assert, join again
I__join_fold_self(self, other) ==
    LET f == I_join(self.assmps[1], self.assmps[2])
    IN  IF f.exc # "" THEN Raise(f.exc, SetAssmp(self, 1, f.val))
        ELSE LET folded == Pop1(SetAssmp(self, 1, f.val))
             IN  IF Len(folded.assmps) # Len(other.assmps)
                 THEN Raise("AssertionError", folded)
                 ELSE I_join(folded, other)

I__join_fold_other(self, other) ==
    LET other_copy == deepcopy(other)
        f == I_join(other_copy.assmps[1], other_copy.assmps[2])
    IN  IF f.exc # "" THEN Raise(f.exc, self)
        ELSE LET folded == Pop1(SetAssmp(other_copy, 1, f.val))
             IN  IF Len(self.assmps) # Len(folded.assmps)
                 THEN Raise("AssertionError", self)
                 ELSE I_join(self, folded)

\* InputAssumptionLattice._join
I__join(self, other) ==
    IF other.iterations = None THEN Ok(self)
    ELSE IF self.iterations = None THEN Ok(Lattice_replace(self, deepcopy(other)))
    ELSE IF iterations_differ(self, other) THEN Ok(I_top(self))
    ELSE IF Len(self.assmps) = Len(other.assmps) THEN I__join_from(self, other, 1)
    ELSE IF /\ Len(self.assmps) > Len(other.assmps)
            /\ Len(other.assmps) > 0
            /\ can_fold(self, other)
         THEN I__join_fold_self(self, other)
    ELSE IF /\ Len(other.assmps) > Len(self.assmps)
            /\ Len(self.assmps) > 0
            /\ ~(Len(self.assmps) > Len(other.assmps))
            /\ can_fold(other, self)
         THEN I__join_fold_other(self, other)
    ELSE Ok(I_top(self))

\* Lattice.join on an InputAssumptionLattice
I_join(self, other) ==
    LET c == Lattice_join(I_is_bottom(self), I_is_top(self), I_is_bottom(other), I_is_top(other))
    IN  IF c = "replace" THEN Ok(Lattice_replace(self, other))
        ELSE IF c = "self" THEN Ok(self)
        ELSE I__join(self, other)

I__meet_returns(self, other) == Ok(self)

\* InputAssumptionLattice._meet / _widening
I__meet(self, other) == Raise("NotImplementedError", self)

I__widening(self, other) == Raise("NotImplementedError", self)

\* Lattice.meet / Lattice.widening on an InputAssumptionLattice
I_meet(self, other) ==
    LET c == Lattice_meet(I_is_bottom(self), I_is_top(self), I_is_bottom(other), I_is_top(other))
    IN  IF c = "replace" THEN Ok(Lattice_replace(self, other))
        ELSE IF c = "self" THEN Ok(self)
        ELSE I__meet(self, other)

I_widening(self, other) ==
    LET c == Lattice_widening(I_is_bottom(self), I_is_top(self), I_is_bottom(other), I_is_top(other))
    IN  IF c = "replace" THEN Ok(Lattice_replace(self, other))
        ELSE I__widening(self, other)

(***************************************************************************)
(* Operands of the InputAssumptionLattice operations.  Sequences are built *)
(* as the assumption pass builds them, with add_assumption_front and       *)
(* add_assumptions_with_iter.                                              *)
(***************************************************************************)
Leaf0 == AssumptionLattice(TypeLattice(Status_Int), IntervalLattice(0, 0))

Leaf1 == AssumptionLattice(TypeLattice(Status_Bool), IntervalLattice(1, 1))

\* the loop block add_assumptions_with_iter(iterations, assmps) puts in front
LoopBlock(iterations, assmps) ==
    add_assumptions_with_iter(InputAssumptionLattice(1, <<>>), iterations, assmps).assmps[1]

Placeholder == LoopBlock(None, <<>>)

Block0 == LoopBlock(1, <<Leaf0>>)

Block1 == LoopBlock(1, <<Leaf1>>)

Block2 == LoopBlock(2, <<Leaf0>>)

\* a block of three blocks, and a block that starts with a placeholder
Block3 == LoopBlock(1, <<Block0, Block1, Block0>>)

BlockP == LoopBlock(1, <<Placeholder>>)

FlatElems == {Leaf0, Leaf1, Placeholder, Block0, Block1, Block2}

DeepElems == {Leaf0, Placeholder, Block0, Block3, BlockP}

Iterations == {None} \cup (1..MaxIter)

\* the elements with a sequence of n elements of E, and for n = 0 also the
\* top and the bottom element
Operands(E, n) ==
    {InputAssumptionLattice(it, s) : it \in Iterations, s \in [1..n -> E]}
    \cup (IF n = 0 THEN {I_top(InputAssumptionLattice(1, <<>>)),
                         I_bottom(InputAssumptionLattice(1, <<>>))}
          ELSE {})

NoStore == [v \in {} |-> 0]

InitInput(E, total) ==
    /\ pc = "init"
    /\ \E la \in 0..total : \E lb \in 0..(total - la) :
          /\ a \in Operands(E, la)
          /\ b \in Operands(E, lb)
    /\ pre = a
    /\ out = "none"
    /\ changes = 0
    /\ steps = 0
    /\ store = NoStore
    /\ lattices = {}
    /\ arguments = NoStore
    /\ variable = 0
    /\ heap = <<>>
    /\ ret = {}

\* what a call that mutates its receiver leaves in out
Returned(r) == IF r.exc = "" THEN "self" ELSE r.exc

\* what a call that returns a bool leaves in out
ReturnedBool(r) == IF r.exc # "" THEN r.exc ELSE IF r.val THEN "True" ELSE "False"

\* a.join(b)
Join ==
    /\ pc = "init"
    /\ LET r == I_join(a, b)
       IN  /\ a' = r.val
           /\ out' = Returned(r)
    /\ pc' = "join"
    /\ UNCHANGED <<b, pre, changes, steps, store, lattices, arguments, variable, heap, ret>>

\* a.less_equal(b)
LessEqual ==
    /\ pc = "init"
    /\ out' = ReturnedBool(I_less_equal(a, b))
    /\ pc' = "less_equal"
    /\ UNCHANGED <<a, b, pre, changes, steps, store, lattices, arguments, variable, heap, ret>>

\* a.meet(b)
Meet ==
    /\ pc = "init"
    /\ LET r == I_meet(a, b)
       IN  /\ a' = r.val
           /\ out' = Returned(r)
    /\ pc' = "meet"
    /\ UNCHANGED <<b, pre, changes, steps, store, lattices, arguments, variable, heap, ret>>

\* a.widening(b)
Widening ==
    /\ pc = "init"
    /\ LET r == I_widening(a, b)
       IN  /\ a' = r.val
           /\ out' = Returned(r)
    /\ pc' = "widening"
    /\ UNCHANGED <<b, pre, changes, steps, store, lattices, arguments, variable, heap, ret>>

NextInput == Join \/ LessEqual

NextUnsupported == Meet \/ Widening

InitFlat == InitInput(FlatElems, MaxTotalLen)

SpecInput == InitFlat /\ [][NextInput]_vars

InitDeep == InitInput(DeepElems, MaxTotalLen)

SpecDeep == InitDeep /\ [][NextInput]_vars

InitUnsupported == InitInput(FlatElems, MaxOpLen)

SpecUnsupported == InitUnsupported /\ [][NextUnsupported]_vars

(***************************************************************************)
(* Claims on InputAssumptionLattice.                                       *)
(***************************************************************************)
\* neither top nor bottom
IsDefault(x) == ~I_is_top(x) /\ ~I_is_bottom(x)

Resolved(x) == x.iterations # None

\* a.join(b) was called on operands with equal resolved iteration counts and
\* sequences of equal length
EqualShapes ==
    /\ pc = "join"
    /\ IsDefault(pre) /\ IsDefault(b)
    /\ Resolved(pre) /\ Resolved(b)
    /\ pre.iterations = b.iterations
    /\ Len(pre.assmps) = Len(b.assmps)

\* C1: after a.join(b) of two elements that are neither top nor bottom and
\* have resolved, different iteration counts, a is top, whatever the sequences
C1_DifferentIterationsTop ==
    (/\ pc = "join"
     /\ IsDefault(pre) /\ IsDefault(b)
     /\ Resolved(pre) /\ Resolved(b)
     /\ pre.iterations # b.iterations)
    => (out = "self" /\ I_is_top(a))

\* C1 happens with identical, non-empty sequences
C1_Witness ==
    /\ pc = "join"
    /\ IsDefault(pre) /\ IsDefault(b)
    /\ Resolved(pre) /\ Resolved(b)
    /\ pre.iterations # b.iterations
    /\ pre.assmps = b.assmps
    /\ Len(b.assmps) = 2
    /\ I_is_top(a)

AllLeaves(x) == \A i \in 1..Len(x.assmps) : ~isinstance_InputAssumptionLattice(x.assmps[i])

\* C2: after a.join(b) of two elements with equal resolved iteration counts and
\* sequences of n leaves each, a keeps its iteration count, its sequence has n
\* elements and element i is the join of the original a[i] with b[i]
C2_PositionWise ==
    (EqualShapes /\ AllLeaves(pre) /\ AllLeaves(b))
    => /\ out = "self"
       /\ IsDefault(a)
       /\ a.iterations = pre.iterations
       /\ Len(a.assmps) = Len(pre.assmps)
       /\ \A i \in 1..Len(pre.assmps) :
             LET j == A_join(pre.assmps[i], b.assmps[i])
             IN  j.exc = "" /\ a.assmps[i] = j.val

\* C2 happens on two sequences of two leaves where the joins change a
C2_Witness ==
    /\ EqualShapes /\ AllLeaves(pre) /\ AllLeaves(b)
    /\ Len(pre.assmps) = 2
    /\ a.assmps[1] # pre.assmps[1]
    /\ a.assmps[2] # pre.assmps[2]
    /\ a.assmps[1] # b.assmps[1]

\* position i holds a leaf on one side and an InputAssumptionLattice on the other
KindsDiffer(i) == ~same_kind(pre.assmps[i], b.assmps[i])

\* ... and the InputAssumptionLattice of position i has resolved iterations
ResolvedKindsDiffer(i) ==
    /\ KindsDiffer(i)
    /\ ~is_placeholder(pre.assmps[i])
    /\ ~is_placeholder(b.assmps[i])

\* C3 as stated: if some position differs in kind, a collapses to top, also
\* when the nested element carries the unresolved sentinel
C3_Original ==
    (EqualShapes /\ \E i \in 1..Len(pre.assmps) : KindsDiffer(i))
    => (out = "self" /\ I_is_top(a))

\* C3 amended: if some position differs in kind and its nested element is
\* resolved, the join never returns an element other than top: a collapses to
\* top, unless the join of an earlier pair of nested elements raised
C3_ResolvedKindMismatchTop ==
    (EqualShapes /\ \E i \in 1..Len(pre.assmps) : ResolvedKindsDiffer(i))
    => \/ out = "self" /\ I_is_top(a)
       \/ /\ out = "AssertionError"
          /\ \E i \in 1..Len(pre.assmps) :
                /\ isinstance_InputAssumptionLattice(pre.assmps[i])
                /\ isinstance_InputAssumptionLattice(b.assmps[i])
                /\ I_join(pre.assmps[i], b.assmps[i]).exc = "AssertionError"
                /\ \A j \in 1..(i - 1) : ~ResolvedKindsDiffer(j)

\* C3 happens: a placeholder facing a leaf is passed over, a later resolved
\* block facing a leaf collapses a
C3_Witness ==
    /\ EqualShapes
    /\ Len(pre.assmps) = 2
    /\ KindsDiffer(1) /\ ~ResolvedKindsDiffer(1)
    /\ ResolvedKindsDiffer(2)
    /\ out = "self" /\ I_is_top(a)

\* C4: a.join(b) completes for every pair of elements
C4_JoinTotal == pc = "join" => out = "self"

\* C5: a.less_equal(b) is true if and only if a.join(copy of b) == copy of b;
\* stated for the case the claim names, two elements that are neither top nor
\* bottom, with the same sequence and different resolved iteration counts
C5_OrderAgreesWithJoin ==
    (/\ pc = "join"
     /\ IsDefault(pre) /\ IsDefault(b)
     /\ Resolved(pre) /\ Resolved(b)
     /\ pre.iterations # b.iterations
     /\ pre.assmps = b.assmps)
    => LET le == I_less_equal(pre, b)
       IN  (le.exc = "" /\ le.val) <=> (out = "self" /\ Lattice_eq(a, deepcopy(b)))

\* C9 as stated: meet and widening raise for every pair of operands
C9_Original == pc \in {"meet", "widening"} => out = "NotImplementedError"

\* C9 amended: meet and widening raise, and leave a as it was, whenever
\* neither operand is top or bottom
C9_UnsupportedUnlessTrivial ==
    (pc \in {"meet", "widening"} /\ IsDefault(pre) /\ IsDefault(b))
    => (out = "NotImplementedError" /\ a = pre)

\* C9 happens: meet raised on two elements with sequences
C9_Witness ==
    /\ pc = "meet"
    /\ IsDefault(pre) /\ IsDefault(b)
    /\ Len(pre.assmps) = 1 /\ Len(b.assmps) = 1
    /\ out = "NotImplementedError"

(***************************************************************************)
(* AssumptionLattice.join on every pair of small elements.                 *)
(***************************************************************************)
TypeElems == {TypeLattice(st) : st \in Status} \cup {T_bottom(TypeLattice(Status_Any))}

RangeElems ==
    {IntervalLattice(iv[1], iv[2]) : iv \in {iv \in (0..MaxBound) \X (0..MaxBound) : iv[1] <= iv[2]}}
    \cup {IntervalLattice(-Inf, Inf), R_bottom(IntervalLattice(-Inf, Inf))}

AssumptionElems == {AssumptionLattice(t, r) : t \in TypeElems, r \in RangeElems}

InitAssumption ==
    /\ pc = "init"
    /\ a \in AssumptionElems
    /\ b \in AssumptionElems
    /\ pre = a
    /\ out = "none"
    /\ changes = 0
    /\ steps = 0
    /\ store = NoStore
    /\ lattices = {}
    /\ arguments = NoStore
    /\ variable = 0
    /\ heap = <<>>
    /\ ret = {}

\* a.join(b) on two AssumptionLattices
AssumptionJoin ==
    /\ pc = "init"
    /\ LET r == A_join(a, b)
       IN  /\ a' = r.val
           /\ out' = Returned(r)
    /\ pc' = "a_join"
    /\ UNCHANGED <<b, pre, changes, steps, store, lattices, arguments, variable, heap, ret>>

\* a.less_equal(b) on two AssumptionLattices
AssumptionLessEqual ==
    /\ pc = "init"
    /\ out' = ReturnedBool(A_less_equal(a, b))
    /\ pc' = "a_less_equal"
    /\ UNCHANGED <<a, b, pre, changes, steps, store, lattices, arguments, variable, heap, ret>>

NextAssumption == AssumptionJoin \/ AssumptionLessEqual

SpecAssumption == InitAssumption /\ [][NextAssumption]_vars

\* a's fields are the joins of the fields of the original a and of b
FieldWise ==
    LET t == T_join(type_assumption(pre), type_assumption(b))
        r == R_join(range_assumption(pre), range_assumption(b))
    IN  /\ out = "self"
        /\ t.exc = "" /\ T_repr(type_assumption(a)) = T_repr(t.val)
        /\ r.exc = "" /\ R_repr(range_assumption(a)) = R_repr(r.val)

\* C6 as stated: AssumptionLattice.join is field-wise for every pair of
\* elements, also when exactly one field of a or of b is bottom
C6_Original == pc = "a_join" => FieldWise

\* C6 amended: the join is field-wise when neither a nor b has a bottom field;
\* when a has a bottom field a becomes b, and otherwise when b has a bottom
\* field a stays as it was
C6_FieldWiseUnlessBottom ==
    pc = "a_join" =>
        /\ out = "self"
        /\ (~A_is_bottom(pre) /\ ~A_is_bottom(b)) => FieldWise
        /\ A_is_bottom(pre) => a = b
        /\ (~A_is_bottom(pre) /\ A_is_bottom(b)) => a = pre

\* C6 happens: both fields of a grow in a join of two elements without bottom
C6_Witness ==
    /\ pc = "a_join"
    /\ ~A_is_bottom(pre) /\ ~A_is_bottom(b)
    /\ ~A_is_top(pre) /\ ~A_is_top(b)
    /\ type_assumption(a) # type_assumption(pre)
    /\ range_assumption(a) # range_assumption(pre)
    /\ range_assumption(a) # range_assumption(b)

(***************************************************************************)
(* A chain of widenings on one TypeLattice.                                *)
(***************************************************************************)
\* the rank of an element in the chain bottom < Bool < Int < Float < Any
Rank(x) == IF T_is_bottom(x) THEN -1 ELSE x.element

TypeOperands == {TypeLattice(st) : st \in Status} \cup {T_bottom(TypeLattice(st)) : st \in Status}

InitType ==
    /\ pc = "init"
    /\ a \in TypeOperands
    /\ b = a
    /\ pre = a
    /\ out = "none"
    /\ changes = 0
    /\ steps = 0
    /\ store = NoStore
    /\ lattices = {}
    /\ arguments = NoStore
    /\ variable = 0
    /\ heap = <<>>
    /\ ret = {}

\* a.widening(y); changes counts the calls after which a differs (==) from before
TypeWidening ==
    /\ steps < MaxSteps
    /\ \E y \in TypeOperands :
          LET r == T_widening(a, y)
          IN  /\ a' = r.val
              /\ out' = Returned(r)
              /\ b' = y
              /\ changes' = IF T_repr(r.val) # T_repr(a) THEN changes + 1 ELSE changes
    /\ pre' = a
    /\ steps' = steps + 1
    /\ pc' = "t_widening"
    /\ UNCHANGED <<store, lattices, arguments, variable, heap, ret>>

NextType == TypeWidening

SpecType == InitType /\ [][NextType]_vars

\* C10: a chain of widenings on a TypeLattice never decreases in rank and
\* changes value at most 4 times; after the 4th change the element is Any
C10_WideningStabilizes ==
    pc = "t_widening" =>
        /\ Rank(pre) <= Rank(a)
        /\ changes <= 4
        /\ changes = 4 => T_is_top(a)
        /\ T_repr(a) # T_repr(pre) => Rank(pre) < Rank(a)

\* C10 happens: a chain from bottom that changed 4 times
C10_Witness ==
    /\ pc = "t_widening"
    /\ changes = 4
    /\ T_is_top(a)
    /\ Rank(pre) = Status_Float

(***************************************************************************)
(* Store: a Store object is the record of _store (variable -> element),    *)
(* _lattices (the variable types with a registered lattice class) and      *)
(* _arguments (variable type -> constructor arguments).  The registered    *)
(* class is TypeLattice, its argument is type_status.  A variable is a     *)
(* number of 1..NumVars, odd ones of integer and even ones of float type.  *)
(***************************************************************************)
Vars == 1..NumVars

Types == {"IntegerLyraType", "FloatLyraType"}

\* VariableIdentifier.typ
typ(var) == IF var % 2 = 1 THEN "IntegerLyraType" ELSE "FloatLyraType"

\* Store.__init__, for variables whose types all have a lattice
Store(variables, lats, args) ==
    [store |-> [v \in variables |-> TypeLattice(args[typ(v)])],
     lattices |-> lats, arguments |-> args]

\* Store.is_bottom: any element is bottom
S_is_bottom(self) == \E v \in DOMAIN self.store : T_is_bottom(self.store[v])

\* Store.is_top: all elements are top
S_is_top(self) == \A v \in DOMAIN self.store : T_is_top(self.store[v])

S__less_equal_any(self, other) ==
    Ok(\E var \in DOMAIN self.store : T_less_equal(self.store[var], other.store[var]).val)

\* Store._less_equal
S__less_equal(self, other) ==
    Ok(\A var \in DOMAIN self.store : T_less_equal(self.store[var], other.store[var]).val)

\* Store._meet
S__meet(self, other) ==
    Ok([self EXCEPT !.store = [var \in DOMAIN self.store |->
                                  T_meet(self.store[var], other.store[var]).val]])

\* Store._join
S__join(self, other) ==
    Ok([self EXCEPT !.store = [var \in DOMAIN self.store |->
                                  T_join(self.store[var], other.store[var]).val]])

\* Lattice.less_equal / meet / join on a Store
S_less_equal(self, other) ==
    LET c == Lattice_less_equal(S_is_bottom(self), S_is_top(self),
                                S_is_bottom(other), S_is_top(other))
    IN  IF c = "true" THEN Ok(TRUE)
        ELSE IF c = "false" THEN Ok(FALSE)
        ELSE S__less_equal(self, other)

S_meet(self, other) ==
    LET c == Lattice_meet(S_is_bottom(self), S_is_top(self),
                          S_is_bottom(other), S_is_top(other))
    IN  IF c = "replace" THEN Ok(other)
        ELSE IF c = "self" THEN Ok(self)
        ELSE S__meet(self, other)

S_join(self, other) ==
    LET c == Lattice_join(S_is_bottom(self), S_is_top(self),
                          S_is_bottom(other), S_is_top(other))
    IN  IF c = "replace" THEN Ok(other)
        ELSE IF c = "self" THEN Ok(self)
        ELSE S__join(self, other)

\* self.store[var] = value
SetItem(self, var, value) ==
    [self EXCEPT !.store = [v \in (DOMAIN self.store) \cup {var} |->
                               IF v = var THEN value ELSE self.store[v]]]

add_var_overwrites(self, var) ==
    IF typ(var) \in self.lattices
    THEN Ok(SetItem(self, var, TypeLattice(self.arguments[typ(var)])))
    ELSE Raise("KeyError", self)

\* Store.add_var
add_var(self, var) ==
    IF var \notin DOMAIN self.store
    THEN IF typ(var) \in self.lattices
         THEN Ok(SetItem(self, var, TypeLattice(self.arguments[typ(var)])))
         ELSE Raise("KeyError", self)
    ELSE Raise("ValueError", self)

\* Store.remove_var
remove_var(self, var) ==
    IF var \in DOMAIN self.store
    THEN Ok([self EXCEPT !.store = [v \in (DOMAIN self.store) \ {var} |-> self.store[v]]])
    ELSE Ok(self)

\* Store.invalidate_var
invalidate_var(self, var) ==
    IF var \in DOMAIN self.store
    THEN Ok(SetItem(self, var, T_top(self.store[var])))
    ELSE Raise("KeyError", self)

\* the Store object the state holds
Self == [store |-> store, lattices |-> lattices, arguments |-> arguments]

\* the stores over the variables of self that an operation may be given
OtherElems ==
    {TypeLattice(Status_Bool), TypeLattice(Status_Float), T_bottom(TypeLattice(Status_Any))}

Others(self) ==
    {[self EXCEPT !.store = f] : f \in [DOMAIN self.store -> OtherElems]}

\* the type_status arguments a type may be registered with
ArgStatus == {Status_Int, Status_Any}

InitStore ==
    /\ pc = "init"
    /\ lattices \in {{"IntegerLyraType"}, Types}
    /\ arguments \in [Types -> ArgStatus]
    /\ \E variables \in SUBSET Vars :
          /\ \A v \in variables : typ(v) \in lattices
          /\ store = Store(variables, lattices, arguments).store
    /\ pre = store
    /\ a = NoStore
    /\ b = NoStore
    /\ out = "none"
    /\ changes = 0
    /\ steps = 0
    /\ variable = 0
    /\ heap = <<>>
    /\ ret = {}

\* the state after a call on the store that left the outcome r; other is the
\* store and var the variable the call was given
StoreCall(name, r, other, var) ==
    /\ store' = r.val.store
    /\ lattices' = r.val.lattices
    /\ arguments' = r.val.arguments
    /\ pre' = store
    /\ b' = other
    /\ variable' = var
    /\ out' = IF r.exc = "" THEN "None" ELSE r.exc
    /\ pc' = name
    /\ UNCHANGED <<a, changes, steps, heap, ret>>

AddVar == \E var \in Vars : StoreCall("add_var", add_var(Self, var), NoStore, var)

RemoveVar == \E var \in Vars : StoreCall("remove_var", remove_var(Self, var), NoStore, var)

InvalidateVar ==
    \E var \in Vars : StoreCall("invalidate_var", invalidate_var(Self, var), NoStore, var)

StoreMeet == \E other \in Others(Self) : StoreCall("meet", S_meet(Self, other), other.store, 0)

StoreJoin == \E other \in Others(Self) : StoreCall("join", S_join(Self, other), other.store, 0)

StoreLessEqual ==
    \E other \in Others(Self) :
        /\ out' = ReturnedBool(S_less_equal(Self, other))
        /\ b' = other.store
        /\ variable' = 0
        /\ pre' = store
        /\ pc' = "less_equal"
        /\ UNCHANGED <<a, changes, steps, store, lattices, arguments, heap, ret>>

NextStore == AddVar \/ RemoveVar \/ InvalidateVar \/ StoreMeet \/ StoreJoin \/ StoreLessEqual

SpecStore == InitStore /\ [][NextStore]_vars

\* s[v] is less_equal o[v] for every variable of the store
PointWise == \A v \in DOMAIN store : T_less_equal(store[v], b[v]).val

SomeBottom == \E v \in DOMAIN store : T_is_bottom(store[v])

\* C7 as stated: s.less_equal(o) is true if and only if s[v] is less_equal o[v]
\* for every variable, also when some but not all variables of s are bottom
C7_Original == pc = "less_equal" => (out = "True" <=> PointWise)

\* C7 amended: the same when no variable of s maps to bottom; when some
\* variable of s maps to bottom, s.less_equal(o) is true
C7_PointWiseUnlessBottom ==
    pc = "less_equal" =>
        /\ ~SomeBottom => (out = "True" <=> PointWise)
        /\ SomeBottom => out = "True"

\* C7 happens: s without bottom is below o at one variable and not at another
C7_Witness ==
    /\ pc = "less_equal"
    /\ ~SomeBottom
    /\ out = "False"
    /\ \E v \in DOMAIN store : T_less_equal(store[v], b[v]).val
    /\ \E v \in DOMAIN store : ~T_is_bottom(b[v]) /\ ~T_less_equal(store[v], b[v]).val

\* the elements of the variables other than var are as before the call
OthersUnchanged(var) ==
    /\ (DOMAIN store) \ {var} = (DOMAIN pre) \ {var}
    /\ \A w \in (DOMAIN pre) \ {var} : store[w] = pre[w]

\* C8 as stated: add_var(v) fails exactly when v is tracked, a failing call
\* leaves the store unchanged, and otherwise v maps to a fresh top element and
\* the other variables are unchanged
C8_Original ==
    pc = "add_var" =>
        /\ out # "None" <=> variable \in DOMAIN pre
        /\ out # "None" => store = pre
        /\ variable \notin DOMAIN pre =>
              /\ variable \in DOMAIN store
              /\ T_is_top(store[variable])
              /\ OthersUnchanged(variable)

\* C8 amended: add_var(v) fails with ValueError exactly when v is tracked, and
\* with KeyError when v is not tracked and its type has no lattice; a failing
\* call leaves the store unchanged; otherwise v maps to a fresh element built
\* with the arguments of its type and the other variables are unchanged
C8_AddVar ==
    pc = "add_var" =>
        /\ out = "ValueError" <=> variable \in DOMAIN pre
        /\ out = "KeyError" <=> (variable \notin DOMAIN pre /\ typ(variable) \notin lattices)
        /\ out # "None" => store = pre
        /\ out = "None" =>
              /\ variable \in DOMAIN store
              /\ store[variable] = TypeLattice(arguments[typ(variable)])
              /\ OthersUnchanged(variable)

\* C8 happens: a variable is added with a top element next to a variable that
\* keeps its element, which is not top
C8_Witness ==
    /\ pc = "add_var"
    /\ out = "None"
    /\ \E w \in DOMAIN pre : ~T_is_top(store[w]) /\ ~T_is_bottom(store[w])
    /\ T_is_top(store[variable])

\* C8 happens: add_var on a tracked variable whose element is not the fresh one
C8_WitnessFails ==
    /\ pc = "add_var"
    /\ out = "ValueError"
    /\ store[variable] # TypeLattice(arguments[typ(variable)])

(***************************************************************************)
(* KeyWrapper (container/fulara/key_wrapper.py): the key of one segment of *)
(* a segmented container.  The class is abstract; the segments modelled    *)
(* are interval segments, whose key variable k_var is bound to an          *)
(* IntervalLattice over the keys 0..MaxKey, and a segment is modelled by   *)
(* that interval.                                                          *)
(***************************************************************************)
\* the largest key of a segment
MaxKey == 6

\* the interval that holds no key
KeyBottom == R_bottom(IntervalLattice(-Inf, Inf))

\* IntervalLattice(lower, upper): bottom when lower > upper
KeyInterval(lower, upper) ==
    IF lower <= upper THEN IntervalLattice(lower, upper) ELSE KeyBottom

\* IntervalLattice._meet and Lattice.meet on the keys of two segments
R__meet(x, y) == Ok(KeyInterval(Max(x.lower, y.lower), Min(x.upper, y.upper)))

R_meet(x, y) ==
    LET c == Lattice_meet(R_is_bottom(x), R_is_top(x), R_is_bottom(y), R_is_top(y))
    IN  IF c = "replace" THEN Ok(y)
        ELSE IF c = "self" THEN Ok(x)
        ELSE R__meet(x, y)

\* KeyWrapper.is_bottom: the key variable cannot have any concrete value
K_is_bottom(self) == R_is_bottom(self)

\* the concretization of a segment: the concrete keys it denotes
concretization(self) == IF K_is_bottom(self) THEN {} ELSE self.lower .. self.upper

\* decomp whose right rest starts at the upper key of exclude
decomp_overlapping(self, exclude) ==
    IF K_is_bottom(self) THEN {}
    ELSE IF K_is_bottom(exclude) THEN {self}
    ELSE {s \in {KeyInterval(self.lower, Min(self.upper, exclude.lower - 1)),
                 KeyInterval(Max(self.lower, exclude.upper), self.upper)} :
            ~K_is_bottom(s)}

\* KeyWrapper.decomp of an interval segment: the rests of self to the left and
\* to the right of exclude, without the empty ones.  It always returns a set;
\* the outcome None does not arise for intervals.
decomp(self, exclude) ==
    IF K_is_bottom(self) THEN {}
    ELSE IF K_is_bottom(exclude) THEN {self}
    ELSE {s \in {KeyInterval(self.lower, Min(self.upper, exclude.lower - 1)),
                 KeyInterval(Max(self.lower, exclude.upper + 1), self.upper)} :
            ~K_is_bottom(s)}

Segments ==
    {KeyInterval(iv[1], iv[2]) : iv \in (0..MaxKey) \X (0..MaxKey)}

InitDecomp ==
    /\ pc = "init"
    /\ a \in Segments
    /\ b \in Segments
    /\ pre = a
    /\ out = "none"
    /\ changes = 0
    /\ steps = 0
    /\ store = NoStore
    /\ lattices = {}
    /\ arguments = NoStore
    /\ variable = 0
    /\ heap = <<>>
    /\ ret = {}

\* ret = a.decomp(b)
Decomp ==
    /\ pc = "init"
    /\ ret' = decomp(a, b)
    /\ out' = "set"
    /\ pc' = "decomp"
    /\ UNCHANGED <<a, b, pre, changes, steps, store, lattices, arguments, variable, heap>>

NextDecomp == Decomp

SpecDecomp == InitDecomp /\ [][NextDecomp]_vars

\* the meet of every returned segment with exclude and with every other
\* returned segment is bottom
Disjoint ==
    \A s \in ret :
        /\ K_is_bottom(R_meet(s, b).val)
        /\ \A t \in ret \ {s} : K_is_bottom(R_meet(s, t).val)

\* the concrete keys of all returned segments
ReturnedKeys == UNION {concretization(s) : s \in ret}

MaxHeapLen == 3

\* the number of successive calls
MaxCalls == 2

H_Ok(h) == [exc |-> "", h |-> h]

H_Raise(e, h) == [exc |-> e, h |-> h]

\* a new object o on the heap h
alloc(h, o) == [h |-> Append(h, o), id |-> Len(h) + 1]

\* isinstance(x, InputAssumptionLattice) of the object id
H_isinstance(h, id) == isinstance_InputAssumptionLattice(h[id])

\* the items of the list self.assmps
H_assmps(h, id) == h[h[id].assmps].items

\* a copy that is the object itself
H_deepcopy_alias(h, id) == [h |-> h, id |-> id]

RECURSIVE H_deepcopy(_, _)
RECURSIVE H_deepcopy_items(_, _, _)
\* copy.deepcopy of the object id: new objects for it and for all it refers to
H_deepcopy(h, id) ==
    LET o == h[id]
    IN  IF o.cls = "dict" THEN alloc(h, o)
        ELSE IF o.cls = "list"
        THEN LET c == H_deepcopy_items(h, o.items, 1)
             IN  alloc(c.h, [cls |-> "list", items |-> c.ids])
        ELSE LET c == H_deepcopy(h, o.assmps)
             IN  alloc(c.h, [o EXCEPT !.assmps = c.id])

\* the copies of the items from position i on, in order
H_deepcopy_items(h, items, i) ==
    IF i > Len(items) THEN [ids |-> <<>>, h |-> h]
    ELSE LET c == H_deepcopy(h, items[i])
             r == H_deepcopy_items(c.h, items, i + 1)
         IN  [ids |-> <<c.id>> \o r.ids, h |-> r.h]

\* is_bottom() / is_top() of the object id, by its class
H_is_bottom(h, id) ==
    IF H_isinstance(h, id) THEN I_is_bottom(h[id]) ELSE A_is_bottom(h[h[id].assmps])

H_is_top(h, id) ==
    IF H_isinstance(h, id) THEN I_is_top(h[id]) ELSE A_is_top(h[h[id].assmps])

\* Lattice.replace: self.__dict__.update(other.__dict__), the attributes of
\* self refer to the objects those of other refer to
H_replace(h, self, other) == [h EXCEPT ![self] = Lattice_replace(h[self], h[other])]

\* BoundedLattice.top
H_top(h, self) == [h EXCEPT ![self] = I_top(h[self])]

\* AssumptionLattice._join: the two assumptions of self's dictionary are
\* joined in place
H_A__join(h, self, other) ==
    LET d1 == h[self].assmps
        d2 == h[other].assmps
        t == T_join(h[d1].type_assmp, h[d2].type_assmp)
    IN  IF t.exc # "" THEN H_Raise(t.exc, h)
        ELSE LET h1 == [h EXCEPT ![d1].type_assmp = t.val]
                 r == R_join(h1[d1].range_assmp, h1[d2].range_assmp)
             IN  IF r.exc # "" THEN H_Raise(r.exc, h1)
                 ELSE H_Ok([h1 EXCEPT ![d1].range_assmp = r.val])

\* lines 355-359 (and 366-370) on the items of the two lists
H_can_fold(h, longer, shorter) ==
    /\ H_isinstance(h, shorter[1])
    /\ h[shorter[1]].iterations = None
    /\ H_isinstance(h, longer[1])
    /\ H_isinstance(h, longer[2])

\* list.pop(1) on the list of self
H_pop1(h, self) ==
    LET l == h[self].assmps
    IN  [h EXCEPT ![l].items = <<@[1]>> \o SubSeq(@, 3, Len(@))]

RECURSIVE H_join(_, _, _)
RECURSIVE H_I__join(_, _, _)
RECURSIVE H_I__join_from(_, _, _, _)
\* lines 341-352: the loop over zip(self.assmps, other.assmps), from position i on
H_I__join_from(h, self, other, i) ==
    IF i > Len(H_assmps(h, self)) \/ i > Len(H_assmps(h, other)) THEN H_Ok(h)
    ELSE LET assmp1 == H_assmps(h, self)[i]
             assmp2 == H_assmps(h, other)[i]
         IN  IF H_isinstance(h, assmp1) /\ h[assmp1].iterations = None
             THEN LET c == H_deepcopy(h, assmp2)
                  IN  H_I__join_from(H_replace(c.h, assmp1, c.id), self, other, i + 1)
             ELSE IF H_isinstance(h, assmp2) /\ h[assmp2].iterations = None
             THEN H_I__join_from(h, self, other, i + 1)
             ELSE IF H_isinstance(h, assmp1) = H_isinstance(h, assmp2)
             THEN LET r == H_join(h, assmp1, assmp2)
                  IN  IF r.exc # "" THEN r
                      ELSE H_I__join_from(r.h, self, other, i + 1)
             ELSE H_Ok(H_top(h, self))

\* lines 360-364: self is the longer side
H_I__join_fold_self(h, self, other) ==
    LET f == H_join(h, H_assmps(h, self)[1], H_assmps(h, self)[2])
    IN  IF f.exc # "" THEN f
        ELSE LET h1 == H_pop1(f.h, self)
             IN  IF Len(H_assmps(h1, self)) # Len(H_assmps(h1, other))
                 THEN H_Raise("AssertionError", h1)
                 ELSE H_join(h1, self, other)

\* lines 371-376: other is the longer side, folded on a copy
H_I__join_fold_other(h, self, other) ==
    LET c == H_deepcopy(h, other)
        other_copy == c.id
        f == H_join(c.h, H_assmps(c.h, other_copy)[1], H_assmps(c.h, other_copy)[2])
    IN  IF f.exc # "" THEN f
        ELSE LET h1 == H_pop1(f.h, other_copy)
             IN  IF Len(H_assmps(h1, self)) # Len(H_assmps(h1, other_copy))
                 THEN H_Raise("AssertionError", h1)
                 ELSE H_join(h1, self, other_copy)

\* InputAssumptionLattice._join
H_I__join(h, self, other) ==
    IF h[other].iterations = None THEN H_Ok(h)
    ELSE IF h[self].iterations = None
    THEN LET c == H_deepcopy(h, other)
         IN  H_Ok(H_replace(c.h, self, c.id))
    ELSE IF iterations_differ(h[self], h[other]) THEN H_Ok(H_top(h, self))
    ELSE LET s == H_assmps(h, self)
             o == H_assmps(h, other)
         IN  IF Len(s) = Len(o) THEN H_I__join_from(h, self, other, 1)
             ELSE IF Len(s) > Len(o) /\ Len(o) > 0 /\ H_can_fold(h, s, o)
             THEN H_I__join_fold_self(h, self, other)
             ELSE IF Len(o) > Len(s) /\ Len(s) > 0 /\ ~(Len(s) > Len(o)) /\ H_can_fold(h, o, s)
             THEN H_I__join_fold_other(h, self, other)
             ELSE H_Ok(H_top(h, self))

\* Lattice.join on the objects self and other
H_join(h, self, other) ==
    LET c == Lattice_join(H_is_bottom(h, self), H_is_top(h, self),
                          H_is_bottom(h, other), H_is_top(h, other))
    IN  IF c = "replace" THEN H_Ok(H_replace(h, self, other))
        ELSE IF c = "self" THEN H_Ok(h)
        ELSE IF H_isinstance(h, self) THEN H_I__join(h, self, other)
        ELSE H_A__join(h, self, other)

(***************************************************************************)
(* Successive joins of two InputAssumptionLattice objects that share no    *)
(* object before the first call.                                           *)
(***************************************************************************)
\* an assumption whose type is bottom, a block that is top, and a block of
\* two blocks
LeafBottom == AssumptionLattice(T_bottom(TypeLattice(Status_Any)), IntervalLattice(0, 1))

BlockTop == I_top(Block1)

Block4 == LoopBlock(1, <<Block0, Block1>>)

HeapElems ==
    {Leaf0, LeafBottom, Placeholder, Block0, Block1, BlockTop, BlockP, Block3, Block4}

\* the operands with a sequence of n elements: unresolved or with one
\* iteration, and for n = 0 also one with two iterations, top and bottom
HeapOperands(n) ==
    {InputAssumptionLattice(it, s) : it \in {None, 1}, s \in [1..n -> HeapElems]}
    \cup (IF n = 0 THEN {InputAssumptionLattice(2, <<>>),
                         I_top(InputAssumptionLattice(1, <<>>)),
                         I_bottom(InputAssumptionLattice(1, <<>>))}
          ELSE {})

RECURSIVE Build(_, _)
RECURSIVE BuildItems(_, _, _)
\* the objects of the element x, as the constructors allocate them
Build(h, x) ==
    IF isinstance_InputAssumptionLattice(x)
    THEN LET c == BuildItems(h, x.assmps, 1)
             l == alloc(c.h, [cls |-> "list", items |-> c.ids])
         IN  alloc(l.h, [x EXCEPT !.assmps = l.id])
    ELSE LET d == alloc(h, [cls |-> "dict", type_assmp |-> x.type_assmp,
                            range_assmp |-> x.range_assmp])
         IN  alloc(d.h, [cls |-> "AssumptionLattice", assmps |-> d.id])

BuildItems(h, xs, i) ==
    IF i > Len(xs) THEN [ids |-> <<>>, h |-> h]
    ELSE LET c == Build(h, xs[i])
             r == BuildItems(c.h, xs, i + 1)
         IN  [ids |-> <<c.id>> \o r.ids, h |-> r.h]

RECURSIVE View(_, _)
\* the value of the object id: its attributes, with every reference replaced
\* by the value of the object it refers to
View(h, id) ==
    LET o == h[id]
    IN  IF o.cls = "dict" THEN o
        ELSE IF o.cls = "list"
        THEN [cls |-> "list", items |-> [i \in 1..Len(o.items) |-> View(h, o.items[i])]]
        ELSE [o EXCEPT !.assmps = View(h, o.assmps)]

InitHeap ==
    /\ pc = "init"
    /\ \E la \in 0..(MaxHeapLen - 1) : \E lb \in 0..Min(MaxHeapLen - 1, MaxHeapLen - la) :
       \E x \in HeapOperands(la) : \E y \in HeapOperands(lb) :
          LET ca == Build(<<>>, x)
              cb == Build(ca.h, y)
          IN  /\ heap = cb.h
              /\ a = ca.id
              /\ b = cb.id
              /\ pre = View(cb.h, cb.id)
    /\ out = "none"
    /\ changes = 0
    /\ steps = 0
    /\ store = NoStore
    /\ lattices = {}
    /\ arguments = NoStore
    /\ variable = 0
    /\ ret = {}

\* self.join(other); variable is the argument and pre its value before the call
HeapCall(self, other) ==
    /\ steps < MaxCalls
    /\ LET r == H_join(heap, self, other)
       IN  /\ heap' = r.h
           /\ out' = Returned(r)
    /\ variable' = other
    /\ pre' = View(heap, other)
    /\ steps' = steps + 1
    /\ pc' = "join"
    /\ UNCHANGED <<a, b, changes, store, lattices, arguments, ret>>

\* a.join(b)
HeapJoin == HeapCall(a, b)

\* b.join(a)
HeapJoinBack == HeapCall(b, a)

NextHeap == HeapJoin \/ HeapJoinBack

SpecHeap == InitHeap /\ [][NextHeap]_vars

\* C12: a call self.join(other) leaves the value of its argument other as it
\* was before the call: its iterations, the length of its sequence and every
\* element of the sequence at every depth
C12_ArgumentUnchanged ==
    pc = "join" => View(heap, variable) = pre

\* the value of the objects of the element x
ViewOf(x) == LET c == Build(<<>>, x) IN View(c.h, c.id)

\* a = [placeholder] has joined b = [[(Int, [0, 0])], [(Bool, [1, 1])]], the
\* longer side: the two blocks of b were folded on a copy and a has adopted
\* the folded block
C12_Witness ==
    /\ pc = "join"
    /\ variable = b
    /\ out = "self"
    /\ pre = ViewOf(InputAssumptionLattice(1, <<Block0, Block1>>))
    /\ View(heap, a) =
          ViewOf(InputAssumptionLattice(1,
              <<LoopBlock(1, <<AssumptionLattice(TypeLattice(Status_Int),
                                                 IntervalLattice(0, 1))>>)>>))

====
